---- MODULE Spec2Model ----
(***************************************************************************)
(* The correlation layer of the Salamander bot: request/response waiters   *)
(* (Salamander.check_basalisk, Filter.listpatterns) built on the bot's     *)
(* listener registry, the ingest task that dispatches inbound envelopes as *)
(* "ipc_recv" events, and the ZMQ queues on both sides.                    *)
(*                                                                         *)
(* Library semantics the source relies on, modelled where the source calls *)
(* them:                                                                   *)
(*  - bot.wait_for(event, check, timeout) creates a future, appends        *)
(*    (future, check) to the event's listener list at once and returns     *)
(*    asyncio.wait_for(future, timeout); the timer starts when that        *)
(*    awaitable is awaited, and on expiry the future is cancelled and      *)
(*    TimeoutError raised in the awaiting caller.  The list entry of a     *)
(*    cancelled future stays until the next dispatch of the event.         *)
(*  - bot.dispatch(event, args) walks the listener list in order: an       *)
(*    entry whose future is cancelled is removed; otherwise the check      *)
(*    is called; if it raises, the exception is set on the future and the  *)
(*    entry removed; if it returns true the future gets args as result     *)
(*    and the entry is removed; otherwise the entry stays.                 *)
(***************************************************************************)
EXTENDS Integers, Sequences, FiniteSets, TLC

\* Bounds of the model.
MaxCalls == 2
MaxEnvelopes == 2

\* Topic and component names.
BASALISK_GAZE == "basalisk.gaze"
BASALISK_OFFER == "basalisk.offer"
STATUS_CHECK == "status.check"
STATUS_RESPONSE == "status.response"
BASALISK == "basalisk"

Calls == 1..MaxCalls

\* A uuid no request of this process carries (another process's request).
ForeignUuid == MaxCalls + 1

VARIABLES
  no_basalisk,  \* BehaviorFlags.no_basalisk, fixed at construction
  kind,         \* per call: "none", "check" (check_basalisk), "status" (listpatterns)
  pc,           \* per call: position in the coroutine
  this_uuid,    \* per call: the uuid4 it generated (0 before)
  fut,          \* per call: state of the future wait_for created
  got,          \* per call: the envelope the future was resolved with
  ret,          \* per call: what the caller got back
  listeners,    \* bot._listeners["ipc_recv"], as the calls owning the entries
  sent,         \* envelopes handed to ipc_put, in order
  last,         \* the envelope the ingest task pulled last (topic, payload)
  arrived,      \* number of envelopes pulled so far
  zmq_task,     \* bot._zmq_task and the position of the ingest task
  ready,        \* the gateway's ready signal (wait_until_ready)
  feature_flags,\* table guild_settings: per guild, its row if any
  msg,          \* per call: the message on_message was called with, if any
  deleted,      \* per call: msg.delete() was called
  others,       \* ingest tasks bot._zmq_task no longer refers to, not yet finished
  inbox,        \* envelopes the adapter received and get() has not returned yet
  wire,         \* every envelope the adapter received from the transport, in order
  dispatched,   \* every envelope dispatched as ipc_recv, in order
  adapter,      \* number of "async with self._zmq" blocks entered and not left
  prompt,       \* the run of SalamanderContext.prompt, if any
  member_settings, \* table member_settings: per guild and user, its row if any
  guild_prefixes,  \* table guild_prefixes: per guild, the prefixes stored
  cache,        \* PrefixManager._cache: per guild, the tuple cached if any
  op            \* the store operation called last, with what it returned

\* The state of the Filter cog's message handler.
filter_vars == <<feature_flags, msg, deleted>>

\* The ingest task's life and the path of the envelopes, in detail.
lifecycle_vars == <<others, inbox, wire, dispatched, adapter>>

\* The state of the commands and handlers outside the correlation layer.
command_vars == <<prompt, member_settings, guild_prefixes, cache, op>>

vars == <<no_basalisk, kind, pc, this_uuid, fut, got, ret, listeners, sent,
          last, arrived, zmq_task, ready, feature_flags, msg, deleted,
          others, inbox, wire, dispatched, adapter,
          prompt, member_settings, guild_prefixes, cache, op>>

NoEnvelope == [topic |-> "", uuid |-> 0, comp |-> "", len |-> 0, data |-> "missing"]

(***************************************************************************)
(* Inbound envelopes.  A payload is described by what the code observes of *)
(* it: its number of elements len (0 stands for an empty or non-sequence   *)
(* payload), its first element uuid (len >= 1), its second element comp    *)
(* (len >= 2) and, for a four-element status payload, whether the data     *)
(* map's "patterns" entry is missing, empty or non-empty.                  *)
(***************************************************************************)
Envelope(t, u, k, n, d) == [topic |-> t, uuid |-> u, comp |-> k, len |-> n, data |-> d]

\* What a responder can answer to request r: the request's uuid on the
\* protocol's response topic, in the shapes that differ for the code.
Responses(r) ==
  IF r.topic = BASALISK_OFFER
  THEN {Envelope(BASALISK_GAZE, r.uuid, "", 1, "missing"),
        Envelope(BASALISK_GAZE, r.uuid, "other", 2, "missing")}
  ELSE {Envelope(STATUS_RESPONSE, r.uuid, BASALISK, 2, "missing"),
        Envelope(STATUS_RESPONSE, r.uuid, "other", 4, "missing")}
       \cup {Envelope(STATUS_RESPONSE, r.uuid, BASALISK, 4, d) :
                d \in {"missing", "empty", "some"}}

\* Traffic that answers no request of this process: payloads without
\* elements, another process's gaze and another process's status response.
Foreign ==
  {Envelope(BASALISK_GAZE, 0, "", 0, "missing"),
   Envelope(STATUS_RESPONSE, 0, "", 0, "missing"),
   Envelope(BASALISK_GAZE, ForeignUuid, "", 1, "missing"),
   Envelope(STATUS_RESPONSE, ForeignUuid, BASALISK, 4, "missing")}

Envelopes == Foreign \cup UNION {Responses(sent[i]) : i \in 1..Len(sent)}

\* The uuids that have left the process: a responder can only echo these.
SentUuids == {sent[i].uuid : i \in 1..Len(sent)}

RequestSent(c) == this_uuid[c] # 0 /\ this_uuid[c] \in SentUuids

(***************************************************************************)
(* The predicates.  Each unpacks its arguments before it compares          *)
(* anything, so a payload with too few elements raises ValueError.         *)
(***************************************************************************)
\* Mutant: the predicate compares with the request topic.
MatchesCheckWrongTopic(u, e) ==
  IF e.len < 1 THEN "raise"
  ELSE IF e.topic = BASALISK_OFFER /\ e.uuid = u THEN "true" ELSE "false"

\* check_basalisk.matches: topic, (recv_uuid, *_data) = args
MatchesCheck(u, e) ==
  IF e.len < 1 THEN "raise"
  ELSE IF e.topic = BASALISK_GAZE /\ e.uuid = u THEN "true" ELSE "false"

\* Mutant: the predicate does not compare the component name.
MatchesStatusAnyComponent(u, e) ==
  IF e.len < 2 THEN "raise"
  ELSE IF e.topic = STATUS_RESPONSE /\ e.uuid = u THEN "true" ELSE "false"

\* listpatterns.matches: topic, (recv_uuid, component_name, *_data) = args
MatchesStatus(u, e) ==
  IF e.len < 2 THEN "raise"
  ELSE IF e.topic = STATUS_RESPONSE /\ e.uuid = u /\ e.comp = BASALISK
       THEN "true" ELSE "false"

Matches(c, e) ==
  IF kind[c] = "check" THEN MatchesCheck(this_uuid[c], e)
  ELSE MatchesStatus(this_uuid[c], e)

(***************************************************************************)
(* Futures.                                                                *)
(***************************************************************************)
\* future.set_result / set_exception: only a pending future accepts it.
Complete(state, new) == IF state = "pending" THEN new ELSE "invalid_state"

(***************************************************************************)
(* bot.dispatch("ipc_recv", topic, payload): one pass over the listener    *)
(* list.  acc = [fut, got, removed].                                       *)
(***************************************************************************)
DispatchOne(i, e, acc) ==
  LET c == listeners[i] IN
  IF acc.fut[c] = "cancelled"
  THEN [acc EXCEPT !.removed = @ \cup {i}]
  ELSE LET r == Matches(c, e) IN
       IF r = "raise"
       THEN [acc EXCEPT !.fut[c] = Complete(@, "exception"),
                        !.removed = @ \cup {i}]
       ELSE IF r = "true"
       THEN [acc EXCEPT !.fut[c] = Complete(@, "result"),
                        !.got[c] = e,
                        !.removed = @ \cup {i}]
       ELSE acc

\* Mutant: the pass stops after the first entry of the list.
DispatchFirstOnly(i, e, acc) ==
  IF Len(listeners) = 0 THEN acc ELSE DispatchOne(1, e, acc)

RECURSIVE DispatchLoop(_, _, _)
DispatchLoop(i, e, acc) ==
  IF i > Len(listeners) THEN acc
  ELSE DispatchLoop(i + 1, e, DispatchOne(i, e, acc))

RECURSIVE RemoveIdx(_, _, _)
RemoveIdx(L, removed, i) ==
  IF i > Len(L) THEN <<>>
  ELSE (IF i \in removed THEN <<>> ELSE <<L[i]>>) \o RemoveIdx(L, removed, i + 1)

Dispatch(e) ==
  LET acc == DispatchLoop(1, e, [fut |-> fut, got |-> got, removed |-> {}]) IN
  /\ fut' = acc.fut
  /\ got' = acc.got
  /\ listeners' = RemoveIdx(listeners, acc.removed, 1)

(***************************************************************************)
(* The statement order of both protocols after the uuid is generated:      *)
(* wait_for (listen), ipc_put (send), await.                               *)
(***************************************************************************)
\* Mutant: the request is published before the listener is registered.
SendBeforeListen == <<"send", "listen", "await">>

ProgramOrder == <<"listen", "send", "await">>

After(p) ==
  LET i == CHOOSE j \in 1..Len(ProgramOrder) : ProgramOrder[j] = p IN
  IF i = Len(ProgramOrder) THEN "done" ELSE ProgramOrder[i + 1]

\* A guild_settings row: whether the guild has one, and its feature_flags.
Guilds == {"g1", "g2"}
Flags == 0..3
NoRow == [present |-> FALSE, feature_flags |-> 0]
Row(f) == [present |-> TRUE, feature_flags |-> f]
Rows == {NoRow} \cup {Row(f) : f \in Flags}

\* A message as on_message looks at it: msg.content non-empty, msg.author.bot,
\* msg.guild ("" in a direct message), and the bot's manage_messages
\* permission in msg.channel.
Message(t, b, g, p) == [content |-> t, author_bot |-> b, guild |-> g, manage_messages |-> p]

NoMessage == Message(FALSE, FALSE, "", FALSE)

\* The messages handed to on_message, all from guild g1 or direct: one that
\* passes the guards on the message itself, and one message failing each of
\* them.
Messages ==
  {Message(TRUE, FALSE, "g1", TRUE)}
  \cup {Message(FALSE, FALSE, "g1", TRUE),
        Message(TRUE, TRUE, "g1", TRUE),
        Message(TRUE, FALSE, "", TRUE),
        Message(TRUE, FALSE, "g1", FALSE)}

\* The users, the prefixes, and the rows of member_settings.
Users == {"u1", "u2"}
Prefixes == {"!", "?"}
NoMember == [present |-> FALSE, is_mod |-> FALSE, is_admin |-> FALSE]
Member(m, a) == [present |-> TRUE, is_mod |-> m, is_admin |-> a]
Members == {NoMember} \cup {Member(m, a) : m, a \in BOOLEAN}

\* An entry of PrefixManager._cache, and its absence.
NotCached == [cached |-> FALSE, prefixes |-> <<>>]
Cached(t) == [cached |-> TRUE, prefixes |-> t]

\* A message of the gateway as prompt's listener sees it, and the absence
\* of one.
Reply(a, ch, t) == [author |-> a, channel |-> ch, content |-> t]
NoReply == Reply("", "", "")

\* SalamanderContext.prompt not called: no future, no listener, no timer.
NoPrompt == [pc |-> "idle", case_sensitive |-> FALSE, delete_on_return |-> FALSE,
             fut |-> "none", listening |-> FALSE, timer |-> FALSE,
             response |-> NoReply, heard |-> NoReply, tick |-> FALSE,
             ret |-> "none", deleted |-> FALSE]

NoOp == [name |-> "none", guild |-> "", users |-> {}, prefixes |-> {},
         result |-> "", list |-> <<>>]

\* No command run: no prompt, no store operation, empty tables and cache.
NoCommands ==
  /\ prompt = NoPrompt
  /\ member_settings = [k \in Guilds \X Users |-> NoMember]
  /\ guild_prefixes = [g \in Guilds |-> {}]
  /\ cache = [g \in Guilds |-> NotCached]
  /\ op = NoOp

\* No call made, no envelope pulled, no ingest task.
Constructed ==
  /\ kind = [c \in Calls |-> "none"]
  /\ pc = [c \in Calls |-> "idle"]
  /\ this_uuid = [c \in Calls |-> 0]
  /\ fut = [c \in Calls |-> "none"]
  /\ got = [c \in Calls |-> NoEnvelope]
  /\ ret = [c \in Calls |-> "none"]
  /\ listeners = <<>>
  /\ sent = <<>>
  /\ last = NoEnvelope
  /\ arrived = 0
  /\ zmq_task = "none"
  /\ ready = FALSE
  /\ msg = [c \in Calls |-> NoMessage]
  /\ deleted = [c \in Calls |-> FALSE]
  /\ others = <<>>
  /\ inbox = <<>>
  /\ wire = <<>>
  /\ dispatched = <<>>
  /\ adapter = 0

Init ==
  /\ no_basalisk \in BOOLEAN
  /\ feature_flags = [g \in Guilds |-> NoRow]
  /\ Constructed
  /\ NoCommands

\* uuid4(): a value no earlier call generated.
FreshUuid == 1 + Cardinality({c \in Calls : this_uuid[c] # 0})

(***************************************************************************)
(* One cooperative scheduler: a coroutine runs until it awaits.  Between   *)
(* the generation of the uuid and "await fut" neither protocol awaits, so  *)
(* while a call is there nothing else runs.                                *)
(***************************************************************************)
Busy == \E c \in Calls : pc[c] \in {"listen", "send"}

NextCall(c) ==
  /\ ~Busy
  /\ pc[c] = "idle"
  /\ \A d \in Calls : d < c => pc[d] # "idle"

\* Mutant: the capability flag is not consulted.
CallCheckIgnoringFlag(c) ==
  /\ NextCall(c)
  /\ kind' = [kind EXCEPT ![c] = "check"]
  /\ pc' = [pc EXCEPT ![c] = ProgramOrder[1]]
  /\ this_uuid' = [this_uuid EXCEPT ![c] = FreshUuid]
  /\ UNCHANGED <<filter_vars, lifecycle_vars>>
  /\ UNCHANGED command_vars
  /\ UNCHANGED <<no_basalisk, fut, got, ret, listeners, sent, last, arrived,
                 zmq_task, ready>>

\* check_basalisk up to the generation of the uuid.
CallCheck(c) ==
  /\ NextCall(c)
  /\ kind' = [kind EXCEPT ![c] = "check"]
  /\ IF no_basalisk
     THEN /\ pc' = [pc EXCEPT ![c] = "done"]
          /\ ret' = [ret EXCEPT ![c] = "False"]
          /\ UNCHANGED this_uuid
     ELSE /\ pc' = [pc EXCEPT ![c] = ProgramOrder[1]]
          /\ this_uuid' = [this_uuid EXCEPT ![c] = FreshUuid]
          /\ UNCHANGED ret
  /\ UNCHANGED <<filter_vars, lifecycle_vars>>
  /\ UNCHANGED command_vars
  /\ UNCHANGED <<no_basalisk, fut, got, listeners, sent, last, arrived,
                 zmq_task, ready>>

\* listpatterns up to the generation of the uuid.  The Filter cog is loaded
\* only when no_basalisk is unset.
CallStatus(c) ==
  /\ NextCall(c)
  /\ ~no_basalisk
  /\ kind' = [kind EXCEPT ![c] = "status"]
  /\ pc' = [pc EXCEPT ![c] = ProgramOrder[1]]
  /\ this_uuid' = [this_uuid EXCEPT ![c] = FreshUuid]
  /\ UNCHANGED <<filter_vars, lifecycle_vars>>
  /\ UNCHANGED command_vars
  /\ UNCHANGED <<no_basalisk, fut, got, ret, listeners, sent, last, arrived,
                 zmq_task, ready>>

\* fut = self.wait_for("ipc_recv", check=matches, timeout=5)
Listen(c) ==
  /\ pc[c] = "listen"
  /\ fut' = [fut EXCEPT ![c] = "pending"]
  /\ listeners' = Append(listeners, c)
  /\ pc' = [pc EXCEPT ![c] = After("listen")]
  /\ UNCHANGED <<filter_vars, lifecycle_vars>>
  /\ UNCHANGED command_vars
  /\ UNCHANGED <<no_basalisk, kind, this_uuid, got, ret, sent, last, arrived,
                 zmq_task, ready>>

RequestTopic(c) == IF kind[c] = "check" THEN BASALISK_OFFER ELSE STATUS_CHECK

\* self.ipc_put(topic, payload)
Send(c) ==
  /\ pc[c] = "send"
  /\ sent' = Append(sent, [topic |-> RequestTopic(c), uuid |-> this_uuid[c]])
  /\ pc' = [pc EXCEPT ![c] = After("send")]
  /\ UNCHANGED <<filter_vars, lifecycle_vars>>
  /\ UNCHANGED command_vars
  /\ UNCHANGED <<no_basalisk, kind, this_uuid, fut, got, ret, listeners, last,
                 arrived, zmq_task, ready>>

\* What the caller makes of a completed future.
Outcome(c) ==
  IF fut[c] # "result" THEN "raised"
  ELSE IF kind[c] = "check" THEN "True"
  ELSE IF got[c].len # 4 THEN "raised"
  ELSE IF got[c].data = "some" THEN "patterns"
  ELSE "no_patterns"

\* await fut, the future being done: the try's else branch, or the
\* predicate's exception propagating.
Resume(c) ==
  /\ ~Busy
  /\ pc[c] = "await"
  /\ fut[c] \in {"result", "exception", "invalid_state"}
  /\ ret' = [ret EXCEPT ![c] = Outcome(c)]
  /\ pc' = [pc EXCEPT ![c] = After("await")]
  /\ UNCHANGED <<filter_vars, lifecycle_vars>>
  /\ UNCHANGED command_vars
  /\ UNCHANGED <<no_basalisk, kind, this_uuid, fut, got, listeners, sent, last,
                 arrived, zmq_task, ready>>

TimeoutOutcome(c) == IF kind[c] = "check" THEN "False" ELSE "no_response"

\* Mutant: the timeout takes effect although the future already has its
\* result.
TimeoutAfterResult(c) ==
  /\ ~Busy
  /\ pc[c] = "await"
  /\ fut[c] \in {"pending", "result"}
  /\ fut' = [fut EXCEPT ![c] = IF @ = "pending" THEN "cancelled" ELSE @]
  /\ ret' = [ret EXCEPT ![c] = TimeoutOutcome(c)]
  /\ pc' = [pc EXCEPT ![c] = After("await")]
  /\ UNCHANGED <<filter_vars, lifecycle_vars>>
  /\ UNCHANGED command_vars
  /\ UNCHANGED <<no_basalisk, kind, this_uuid, got, listeners, sent, last,
                 arrived, zmq_task, ready>>

\* await fut, the timer expiring first: except asyncio.TimeoutError.
Timeout(c) ==
  /\ ~Busy
  /\ pc[c] = "await"
  /\ fut[c] = "pending"
  /\ fut' = [fut EXCEPT ![c] = "cancelled"]
  /\ ret' = [ret EXCEPT ![c] = TimeoutOutcome(c)]
  /\ pc' = [pc EXCEPT ![c] = After("await")]
  /\ UNCHANGED <<filter_vars, lifecycle_vars>>
  /\ UNCHANGED command_vars
  /\ UNCHANGED <<no_basalisk, kind, this_uuid, got, listeners, sent, last,
                 arrived, zmq_task, ready>>

\* Salamander.__aenter__
AEnter ==
  /\ ~Busy
  /\ zmq_task' = IF zmq_task = "none" THEN "wait_ready" ELSE zmq_task
  /\ UNCHANGED <<filter_vars, lifecycle_vars>>
  /\ UNCHANGED command_vars
  /\ UNCHANGED <<no_basalisk, kind, pc, this_uuid, fut, got, ret, listeners,
                 sent, last, arrived, ready>>

\* Salamander.__aexit__
AExit ==
  /\ ~Busy
  /\ zmq_task' = "none"
  /\ UNCHANGED <<filter_vars, lifecycle_vars>>
  /\ UNCHANGED command_vars
  /\ UNCHANGED <<no_basalisk, kind, pc, this_uuid, fut, got, ret, listeners,
                 sent, last, arrived, ready>>

\* The gateway signals ready.
Ready ==
  /\ ~Busy
  /\ ~ready
  /\ ready' = TRUE
  /\ UNCHANGED <<filter_vars, lifecycle_vars>>
  /\ UNCHANGED command_vars
  /\ UNCHANGED <<no_basalisk, kind, pc, this_uuid, fut, got, ret, listeners,
                 sent, last, arrived, zmq_task>>

\* zmq_injest_task: wait_until_ready returned, the handler is entered.
IngestStart ==
  /\ ~Busy
  /\ zmq_task = "wait_ready"
  /\ ready
  /\ zmq_task' = "running"
  /\ UNCHANGED <<filter_vars, lifecycle_vars>>
  /\ UNCHANGED command_vars
  /\ UNCHANGED <<no_basalisk, kind, pc, this_uuid, fut, got, ret, listeners,
                 sent, last, arrived, ready>>

\* Mutant: an exception raised by a listener's predicate propagates out of
\* dispatch and ends the task.
IngestStepUncaught(e) ==
  /\ ~Busy
  /\ zmq_task = "running"
  /\ arrived < MaxEnvelopes
  /\ last' = e
  /\ arrived' = arrived + 1
  /\ Dispatch(e)
  /\ zmq_task' = IF \E i \in 1..Len(listeners) :
                      fut[listeners[i]] = "pending" /\ Matches(listeners[i], e) = "raise"
                 THEN "failed" ELSE zmq_task
  /\ UNCHANGED <<filter_vars, lifecycle_vars>>
  /\ UNCHANGED command_vars
  /\ UNCHANGED <<no_basalisk, kind, pc, this_uuid, ret, sent, ready>>

\* Mutant: the loop takes a turn although its task was cancelled.
IngestStepAfterCancel(e) ==
  /\ ~Busy
  /\ zmq_task \in {"running", "none"}
  /\ ready
  /\ arrived < MaxEnvelopes
  /\ last' = e
  /\ arrived' = arrived + 1
  /\ Dispatch(e)
  /\ UNCHANGED <<filter_vars, lifecycle_vars>>
  /\ UNCHANGED command_vars
  /\ UNCHANGED <<no_basalisk, kind, pc, this_uuid, ret, sent, zmq_task, ready>>

\* zmq_injest_task, one turn of the loop: get() returns envelope e, which is
\* dispatched.
IngestStep(e) ==
  /\ ~Busy
  /\ zmq_task = "running"
  /\ arrived < MaxEnvelopes
  /\ last' = e
  /\ arrived' = arrived + 1
  /\ Dispatch(e)
  /\ UNCHANGED <<filter_vars, lifecycle_vars>>
  /\ UNCHANGED command_vars
  /\ UNCHANGED <<no_basalisk, kind, pc, this_uuid, ret, sent, zmq_task, ready>>

(***************************************************************************)
(* The ingest task in detail.  task.cancel() only requests cancellation:   *)
(* the task gets CancelledError when the event loop next runs it, and      *)
(* until then it exists beside whatever task __aenter__ creates next.  A   *)
(* task is described by its position and whether cancel() was called.      *)
(***************************************************************************)
MaxUnwinding == 2

Task(p, x) == [pos |-> p, cancelled |-> x]

\* The adapter, entered, receives envelope e from the transport and queues it.
Transport(e) ==
  /\ ~Busy
  /\ adapter > 0
  /\ Len(wire) < MaxEnvelopes
  /\ wire' = Append(wire, e)
  /\ inbox' = Append(inbox, e)
  /\ UNCHANGED <<others, dispatched, adapter>>
  /\ UNCHANGED filter_vars
  /\ UNCHANGED command_vars
  /\ UNCHANGED <<no_basalisk, kind, pc, this_uuid, fut, got, ret, listeners, sent,
                 last, arrived, zmq_task, ready>>

\* Mutant: the task enters the adapter without waiting for ready.
StartBeforeReady ==
  /\ ~Busy
  /\ zmq_task = "wait_ready"
  /\ zmq_task' = "running"
  /\ adapter' = adapter + 1
  /\ UNCHANGED <<others, inbox, wire, dispatched>>
  /\ UNCHANGED filter_vars
  /\ UNCHANGED command_vars
  /\ UNCHANGED <<no_basalisk, kind, pc, this_uuid, fut, got, ret, listeners, sent,
                 last, arrived, ready>>

\* zmq_injest_task: wait_until_ready returned, "async with self._zmq" enters
\* the adapter.
Start ==
  /\ ~Busy
  /\ zmq_task = "wait_ready"
  /\ ready
  /\ zmq_task' = "running"
  /\ adapter' = adapter + 1
  /\ UNCHANGED <<others, inbox, wire, dispatched>>
  /\ UNCHANGED filter_vars
  /\ UNCHANGED command_vars
  /\ UNCHANGED <<no_basalisk, kind, pc, this_uuid, fut, got, ret, listeners, sent,
                 last, arrived, ready>>

\* Mutant: get() hands out the newest queued envelope.
LoopTurnNewestFirst ==
  /\ ~Busy
  /\ zmq_task = "running"
  /\ inbox # <<>>
  /\ LET e == inbox[Len(inbox)] IN
       /\ last' = e
       /\ Dispatch(e)
       /\ dispatched' = Append(dispatched, e)
  /\ inbox' = SubSeq(inbox, 1, Len(inbox) - 1)
  /\ arrived' = arrived + 1
  /\ UNCHANGED <<others, wire, adapter>>
  /\ UNCHANGED filter_vars
  /\ UNCHANGED command_vars
  /\ UNCHANGED <<no_basalisk, kind, pc, this_uuid, ret, sent, zmq_task, ready>>

\* zmq_injest_task, one turn of the loop, run by the task bot._zmq_task
\* refers to: get() returns the oldest queued envelope, which is dispatched.
LoopTurn ==
  /\ ~Busy
  /\ zmq_task = "running"
  /\ inbox # <<>>
  /\ LET e == Head(inbox) IN
       /\ last' = e
       /\ Dispatch(e)
       /\ dispatched' = Append(dispatched, e)
  /\ inbox' = Tail(inbox)
  /\ arrived' = arrived + 1
  /\ UNCHANGED <<others, wire, adapter>>
  /\ UNCHANGED filter_vars
  /\ UNCHANGED command_vars
  /\ UNCHANGED <<no_basalisk, kind, pc, this_uuid, ret, sent, zmq_task, ready>>

\* get() raises in the task bot._zmq_task refers to, the adapter having been
\* closed under it: the exception leaves the loop, "async with" leaves the
\* adapter, and bot._zmq_task goes on referring to the finished task.
Fail ==
  /\ ~Busy
  /\ zmq_task = "running"
  /\ zmq_task' = "failed"
  /\ adapter' = adapter - 1
  /\ UNCHANGED <<others, inbox, wire, dispatched>>
  /\ UNCHANGED filter_vars
  /\ UNCHANGED command_vars
  /\ UNCHANGED <<no_basalisk, kind, pc, this_uuid, fut, got, ret, listeners, sent,
                 last, arrived, ready>>

\* Mutant: __aenter__ creates a task whether or not one exists.
EnterAlways ==
  /\ ~Busy
  /\ Len(others) < MaxUnwinding
  /\ zmq_task' = "wait_ready"
  /\ others' = IF zmq_task \in {"none", "failed"} THEN others
               ELSE Append(others, Task(zmq_task, FALSE))
  /\ UNCHANGED <<inbox, wire, dispatched, adapter>>
  /\ UNCHANGED filter_vars
  /\ UNCHANGED command_vars
  /\ UNCHANGED <<no_basalisk, kind, pc, this_uuid, fut, got, ret, listeners, sent,
                 last, arrived, ready>>

\* Salamander.__aenter__, the tasks left unfinished by __aexit__ kept apart.
Enter ==
  /\ AEnter
  /\ Len(others) < MaxUnwinding

\* Salamander.__aexit__: cancel() is requested and the reference dropped; the
\* task is not awaited.
Exit ==
  /\ ~Busy
  /\ zmq_task' = "none"
  /\ others' = IF zmq_task \in {"none", "failed"} THEN others
               ELSE Append(others, Task(zmq_task, TRUE))
  /\ UNCHANGED <<inbox, wire, dispatched, adapter>>
  /\ UNCHANGED filter_vars
  /\ UNCHANGED command_vars
  /\ UNCHANGED <<no_basalisk, kind, pc, this_uuid, fut, got, ret, listeners, sent,
                 last, arrived, ready>>

\* Mutant: a cancelled task finishes without leaving the adapter.
UnwindLeavesOpen ==
  /\ ~Busy
  /\ others # <<>>
  /\ Head(others).cancelled
  /\ others' = Tail(others)
  /\ UNCHANGED <<inbox, wire, dispatched, adapter>>
  /\ UNCHANGED filter_vars
  /\ UNCHANGED command_vars
  /\ UNCHANGED <<no_basalisk, kind, pc, this_uuid, fut, got, ret, listeners, sent,
                 last, arrived, zmq_task, ready>>

\* The event loop runs the task cancelled first: CancelledError is raised at
\* its await (wait_until_ready or get), "async with" leaves the adapter if the
\* task was inside, and the task is finished.
Unwind ==
  /\ ~Busy
  /\ others # <<>>
  /\ Head(others).cancelled
  /\ others' = Tail(others)
  /\ adapter' = IF Head(others).pos = "running" THEN adapter - 1 ELSE adapter
  /\ UNCHANGED <<inbox, wire, dispatched>>
  /\ UNCHANGED filter_vars
  /\ UNCHANGED command_vars
  /\ UNCHANGED <<no_basalisk, kind, pc, this_uuid, fut, got, ret, listeners, sent,
                 last, arrived, zmq_task, ready>>

(***************************************************************************)
(* The Filter cog's message handler.  In this part a call is one run of    *)
(* on_message; the handler enters check_basalisk only behind its guards.   *)
(***************************************************************************)
\* Mutant: a guild without a row counts as enabled.
check_enabled_default_on(g) ==
  IF feature_flags[g].present THEN feature_flags[g].feature_flags % 2 = 1 ELSE TRUE

\* SELECT feature_flags & 1 ...; if row: return row[0]; return False
check_enabled_in_guild(g) ==
  IF feature_flags[g].present THEN feature_flags[g].feature_flags % 2 = 1 ELSE FALSE

\* The guards of on_message in front of check_basalisk.
Guards(m) ==
  /\ m.content
  /\ ~m.author_bot
  /\ m.guild # ""
  /\ m.manage_messages
  /\ check_enabled_in_guild(m.guild)

\* on_message(m) up to the uuid check_basalisk generates, or to its return
\* when a guard fails.  The cog is loaded only when no_basalisk is unset.
OnMessage(c, m) ==
  /\ NextCall(c)
  /\ ~no_basalisk
  /\ msg' = [msg EXCEPT ![c] = m]
  /\ IF Guards(m)
     THEN /\ kind' = [kind EXCEPT ![c] = "check"]
          /\ pc' = [pc EXCEPT ![c] = ProgramOrder[1]]
          /\ this_uuid' = [this_uuid EXCEPT ![c] = FreshUuid]
     ELSE /\ kind' = [kind EXCEPT ![c] = "skipped"]
          /\ pc' = [pc EXCEPT ![c] = "done"]
          /\ UNCHANGED this_uuid
  /\ UNCHANGED lifecycle_vars
  /\ UNCHANGED command_vars
  /\ UNCHANGED <<feature_flags, deleted, no_basalisk, fut, got, ret, listeners,
                 sent, last, arrived, zmq_task, ready>>

\* Mutant: the message is deleted whatever check_basalisk returned.
DeleteWhateverReturned(c) ==
  /\ ~Busy
  /\ msg[c] # NoMessage
  /\ kind[c] = "check"
  /\ pc[c] = "done"
  /\ ret[c] \in {"True", "False"}
  /\ ~deleted[c]
  /\ deleted' = [deleted EXCEPT ![c] = TRUE]
  /\ UNCHANGED lifecycle_vars
  /\ UNCHANGED command_vars
  /\ UNCHANGED <<feature_flags, msg, no_basalisk, kind, pc, this_uuid, fut, got,
                 ret, listeners, sent, last, arrived, zmq_task, ready>>

\* if await self.bot.check_basalisk(msg.content): await msg.delete()
Delete(c) ==
  /\ ~Busy
  /\ msg[c] # NoMessage
  /\ kind[c] = "check"
  /\ pc[c] = "done"
  /\ ret[c] = "True"
  /\ ~deleted[c]
  /\ deleted' = [deleted EXCEPT ![c] = TRUE]
  /\ UNCHANGED lifecycle_vars
  /\ UNCHANGED command_vars
  /\ UNCHANGED <<feature_flags, msg, no_basalisk, kind, pc, this_uuid, fut, got,
                 ret, listeners, sent, last, arrived, zmq_task, ready>>

Next ==
  \/ \E c \in Calls : CallCheck(c)
  \/ \E c \in Calls : CallStatus(c)
  \/ \E c \in Calls : Listen(c)
  \/ \E c \in Calls : Send(c)
  \/ \E c \in Calls : Resume(c)
  \/ \E c \in Calls : Timeout(c)
  \/ AEnter
  \/ AExit
  \/ Ready
  \/ IngestStart
  \/ \E e \in Envelopes : IngestStep(e)

Spec == Init /\ [][Next]_vars

\* The bot entered, left and entered again while the transport delivers,
\* no request being made.
NextLifecycle ==
  \/ Enter
  \/ Exit
  \/ Unwind
  \/ Ready
  \/ Start
  \/ Fail
  \/ \E e \in Envelopes : Transport(e)
  \/ LoopTurn

SpecLifecycle == Init /\ [][NextLifecycle]_vars

\* The bot with the Filter cog loaded, every call being a message the
\* gateway hands to on_message.  The guild_settings table is what earlier
\* runs left in salamander.db: any row or none for the messages' guild.
InitFilter ==
  /\ no_basalisk = FALSE
  /\ feature_flags \in {f \in [Guilds -> Rows] : f["g2"] = NoRow}
  /\ Constructed
  /\ NoCommands

NextFilter ==
  \/ \E c \in Calls : \E m \in Messages : OnMessage(c, m)
  \/ \E c \in Calls : Listen(c)
  \/ \E c \in Calls : Send(c)
  \/ \E c \in Calls : Resume(c)
  \/ \E c \in Calls : Timeout(c)
  \/ \E c \in Calls : Delete(c)
  \/ AEnter
  \/ AExit
  \/ Ready
  \/ IngestStart
  \/ \E e \in Envelopes : IngestStep(e)

SpecFilter == InitFilter /\ [][NextFilter]_vars

(***************************************************************************)
(* Properties.                                                             *)
(***************************************************************************)
Registered(c) == \E i \in 1..Len(listeners) : listeners[i] = c

\* The waiter of call c is outstanding: registered, awaited, unresolved.
Waiting(c) == pc[c] = "await" /\ fut[c] = "pending"

ResponseTopic(c) == IF kind[c] = "check" THEN BASALISK_GAZE ELSE STATUS_RESPONSE

\* Envelope e carries the correlation id of call c on c's response topic.
CarriesIdOf(e, c) ==
  /\ this_uuid[c] # 0
  /\ e.len >= 1
  /\ e.uuid = this_uuid[c]
  /\ e.topic = ResponseTopic(c)

\* The step is a turn of the ingest loop (the only action that counts an
\* envelope); last' is the envelope it pulled and dispatched.
Pulled == arrived' = arrived + 1

C2_OnlyAddressedWaiterResolved ==
  [][Pulled => \A a, b \in Calls : LET e == last' IN
       (/\ a # b
        /\ Waiting(a)
        /\ Waiting(b)
        /\ CarriesIdOf(e, a)
        /\ Matches(a, e) = "true")
       => (/\ fut'[a] = "result"
           /\ fut'[b] = "pending"
           /\ got'[b] = got[b]
           /\ \E i \in 1..Len(listeners') : listeners'[i] = b)]_vars

\* C3: a future is completed at most once and keeps its state and result
\* from then on, a caller's outcome never changes once set, and the match
\* and the timeout exclude each other: a caller has a match outcome only on
\* a future with a result, and a timeout outcome exactly on a cancelled one;
\* a matching envelope dispatched to a waiting call makes it matched without
\* a timeout outcome, and the expiry of its timer makes it timed out.
C3_ResolvedAtMostOnce ==
  /\ [](\A c \in Calls :
          /\ fut[c] # "invalid_state"
          /\ ret[c] \in {"True", "patterns", "no_patterns"} => fut[c] = "result"
          /\ fut[c] = "cancelled" => ret[c] \in {"False", "no_response"}
          /\ (~no_basalisk /\ ret[c] \in {"False", "no_response"})
               => fut[c] = "cancelled")
  /\ [][\A c \in Calls :
          /\ fut[c] \notin {"none", "pending"}
               => (fut'[c] = fut[c] /\ got'[c] = got[c])
          /\ ret[c] # "none" => ret'[c] = ret[c]
          /\ (Pulled /\ Waiting(c) /\ Matches(c, last') = "true")
               => (fut'[c] = "result" /\ ret'[c] = "none")
          /\ (~Pulled /\ Waiting(c) /\ fut'[c] # "pending")
               => (fut'[c] = "cancelled" /\ ret'[c] = TimeoutOutcome(c))]_vars

\* One call matched, another timed out, and envelopes dispatched after both.
C3_Witness ==
  \E c, d \in Calls :
    /\ pc[c] = "done" /\ fut[c] = "result" /\ ret[c] = "True"
    /\ pc[d] = "done" /\ fut[d] = "cancelled"
    /\ arrived = MaxEnvelopes
    /\ CarriesIdOf(last, c)

C5_NoMatchReturnsFalse ==
  \A c \in Calls :
    (~no_basalisk /\ kind[c] = "check" /\ pc[c] = "done" /\ fut[c] # "result")
    => ret[c] = "False"

\* C6: with no_basalisk set, every check_basalisk call has returned False in
\* the step that called it, no envelope was ever published, no listener
\* registered and no future created, whatever envelopes were dispatched.
C6_DisabledSkipsRoundTrip ==
  no_basalisk =>
    /\ sent = <<>>
    /\ listeners = <<>>
    /\ \A c \in Calls :
         /\ fut[c] = "none"
         /\ this_uuid[c] = 0
         /\ kind[c] = "check" => (pc[c] = "done" /\ ret[c] = "False")

\* Disabled, every call made, envelopes dispatched.
C6_Witness ==
  /\ no_basalisk
  /\ \A c \in Calls : kind[c] = "check" /\ ret[c] = "False"
  /\ arrived = MaxEnvelopes

\* C7: a status query that has ended without a matching status.response
\* having been dispatched to it (its future never got a result) has sent
\* "No response from filtering service.", and neither a pattern list nor
\* "No current patterns".
C7_NoMatchSaysNoResponse ==
  \A c \in Calls :
    (kind[c] = "status" /\ pc[c] = "done" /\ fut[c] # "result")
    => ret[c] = "no_response"

\* C8: the dispatch of a status.response envelope that carries the uuid of a
\* waiting status query and a component name other than "basalisk" leaves
\* the query pending, registered, without result and not returned.
C8_WrongComponentDoesNotResolve ==
  [][Pulled => \A c \in Calls : LET e == last' IN
       (/\ kind[c] = "status"
        /\ Waiting(c)
        /\ CarriesIdOf(e, c)
        /\ e.len >= 2
        /\ e.comp # BASALISK)
       => (/\ fut'[c] = "pending"
           /\ got'[c] = got[c]
           /\ pc'[c] = "await"
           /\ ret'[c] = "none"
           /\ \E i \in 1..Len(listeners') : listeners'[i] = c)]_vars

\* A status query still waiting after a response with another component.
C8_Witness ==
  \E c \in Calls :
    /\ kind[c] = "status"
    /\ Waiting(c)
    /\ Registered(c)
    /\ CarriesIdOf(last, c)
    /\ last.len >= 2
    /\ last.comp # BASALISK

\* C9: once a call's future has its result, the dispatch of a further
\* envelope carrying the same uuid on the response topic changes no call's
\* future, result or outcome.
C9_DuplicateResponseIgnored ==
  [][Pulled => \A c \in Calls : LET e == last' IN
       (/\ fut[c] = "result"
        /\ CarriesIdOf(e, c))
       => (fut' = fut /\ got' = got /\ ret' = ret /\ pc' = pc)]_vars

\* C10: once a call has timed out, the dispatch of a response carrying its
\* uuid changes no call's future, result or outcome: neither the timed-out
\* call's nor that of any other call, whenever it was made.
C10_LateResponseIgnored ==
  [][Pulled => \A c \in Calls : LET e == last' IN
       (/\ fut[c] = "cancelled"
        /\ CarriesIdOf(e, c))
       => (fut' = fut /\ got' = got /\ ret' = ret /\ pc' = pc)]_vars

\* C11: with several waiters outstanding, the dispatch of an envelope that
\* does not carry a waiter's own correlation id leaves that waiter
\* outstanding: its future stays pending and its caller gets nothing, so its
\* result comes only from its own responses or its own deadline, whatever
\* the other requests receive.
C11_ResultOnlyFromOwnResponses ==
  [][Pulled => \A c \in Calls : LET e == last' IN
       (/\ Waiting(c)
        /\ \E d \in Calls : d # c /\ fut[d] # "none"
        /\ ~CarriesIdOf(e, c))
       => (fut'[c] = "pending" /\ got'[c] = got[c] /\ ret'[c] = "none")]_vars

C13_DeleteOnlyAfterTrue ==
  \A c \in Calls :
    deleted[c] =>
      /\ msg[c] # NoMessage
      /\ kind[c] = "check"
      /\ ret[c] = "True"
      /\ fut[c] = "result"
      /\ got[c].topic = BASALISK_GAZE
      /\ got[c].len >= 1
      /\ got[c].uuid = this_uuid[c]

\* One message deleted after its gaze response, another one kept after its
\* check timed out.
C13_Witness ==
  \E c, d \in Calls :
    /\ deleted[c]
    /\ CarriesIdOf(got[c], c)
    /\ msg[d] # NoMessage
    /\ kind[d] = "check"
    /\ pc[d] = "done"
    /\ fut[d] = "cancelled"
    /\ ret[d] = "False"
    /\ ~deleted[d]
    /\ arrived = MaxEnvelopes

\* The messages on_message is to leave alone: empty content, a bot author,
\* a direct message, a channel without manage_messages, or a guild whose
\* row is missing or has bit 0 of feature_flags clear.
LeftAlone(m) ==
  \/ ~m.content
  \/ m.author_bot
  \/ m.guild = ""
  \/ ~m.manage_messages
  \/ ~feature_flags[m.guild].present
  \/ feature_flags[m.guild].feature_flags % 2 = 0

\* C14: a message that is to be left alone (toggle off or no settings row
\* for its guild, empty content, bot author, direct message, no
\* manage_messages permission) does not enter the content-check protocol:
\* handling it publishes nothing, registers no listener and creates no
\* future, the handler is finished, and the message is never deleted; every
\* published offer belongs to a message that is not to be left alone.
C14_GuardsSkipProtocol ==
  /\ [](\A c \in Calls :
          (msg[c] # NoMessage /\ LeftAlone(msg[c])) =>
             /\ kind[c] = "skipped"
             /\ pc[c] = "done"
             /\ this_uuid[c] = 0
             /\ fut[c] = "none"
             /\ ~Registered(c)
             /\ ~deleted[c])
  /\ [](\A i \in 1..Len(sent) :
          /\ sent[i].topic = BASALISK_OFFER
          /\ \E c \in Calls : this_uuid[c] = sent[i].uuid /\ ~LeftAlone(msg[c]))
  /\ [][\A c \in Calls :
          (msg'[c] # msg[c] /\ LeftAlone(msg'[c])) =>
             (sent' = sent /\ listeners' = listeners /\ fut' = fut /\ deleted' = deleted)]_vars

\* A message in a guild whose row has bit 0 clear and another bit set was
\* skipped, and so was a direct message, while the ingest loop was
\* delivering envelopes.
C14_Witness ==
  \E c, d \in Calls :
    /\ msg[c] = Message(TRUE, FALSE, "g1", TRUE)
    /\ feature_flags["g1"] = Row(2)
    /\ kind[c] = "skipped"
    /\ msg[d] = Message(TRUE, FALSE, "", TRUE)
    /\ kind[d] = "skipped"
    /\ arrived > 0

\* An envelope whose payload is malformed for its topic: fewer elements than
\* the protocol's predicate unpacks.
Malformed(e) ==
  \/ e.len < 1
  \/ (e.topic = STATUS_RESPONSE /\ e.len < 2)

C16_MalformedNeverDispatched ==
  [][Pulled => LET e == last' IN
       Malformed(e) => (fut' = fut /\ got' = got /\ listeners' = listeners)]_vars

\* C17: the dispatch of an envelope on the other protocol's response topic,
\* with a payload of any length that topic allows, leaves a waiting call as
\* it was: its future pending, nothing returned to its caller, its listener
\* still registered.
C17_OtherProtocolLeavesWaiter ==
  [][Pulled => \A c \in Calls : LET e == last' IN
       (/\ Waiting(c)
        /\ e.topic # ResponseTopic(c)
        /\ ~Malformed(e))
       => (/\ fut'[c] = "pending"
           /\ got'[c] = got[c]
           /\ ret'[c] = "none"
           /\ \E i \in 1..Len(listeners') : listeners'[i] = c)]_vars

\* The ingest tasks that can still take a turn of their loop: created, not
\* cancelled, not finished.
LiveTasks ==
  (IF zmq_task \in {"none", "failed"} THEN 0 ELSE 1)
  + Cardinality({i \in 1..Len(others) : ~others[i].cancelled})

\* C18: over any sequence of __aenter__ and __aexit__ calls at most one
\* ingest task is live: every task the bot no longer refers to has been
\* cancelled, and every envelope the adapter received has been dispatched at
\* most once (it is still queued or it was dispatched exactly once).
C18_AtMostOneIngestTask ==
  /\ LiveTasks <= 1
  /\ \A i \in 1..Len(others) : others[i].cancelled
  /\ Len(dispatched) + Len(inbox) = Len(wire)
  /\ arrived = Len(dispatched)

\* The bot was restarted after an exit: the cancelled task, which had run
\* the loop, is not finished yet while the new task has already dispatched
\* every envelope received.
C18_Witness ==
  /\ zmq_task = "running"
  /\ \E i \in 1..Len(others) : others[i].pos = "running"
  /\ Len(wire) = MaxEnvelopes
  /\ Len(dispatched) = MaxEnvelopes

\* C19: the envelopes dispatched as ipc_recv events are, in order, the first
\* envelopes the adapter received from the transport: the n-th dispatch is
\* the n-th envelope received, and each turn of the loop dispatches the
\* oldest envelope not dispatched yet.
C19_DispatchInReceiveOrder ==
  /\ [](/\ Len(dispatched) <= Len(wire)
        /\ \A i \in 1..Len(dispatched) : dispatched[i] = wire[i])
  /\ [][Pulled => (/\ Len(wire) > Len(dispatched)
                   /\ last' = wire[Len(dispatched) + 1]
                   /\ dispatched' = Append(dispatched, last'))]_vars

\* Several different envelopes were queued together and have all been
\* dispatched.
C19_Witness ==
  /\ Len(dispatched) = MaxEnvelopes
  /\ dispatched[1] # dispatched[MaxEnvelopes]
  /\ dispatched = wire

\* C20: while there is no ingest task, __aexit__ having cancelled it, no
\* envelope is dispatched, and a waiter that stops waiting does so by its
\* own timeout: its future is cancelled and its caller gets the
\* protocol's timeout outcome.
C20_NoDispatchAfterExit ==
  [][zmq_task = "none" =>
       /\ ~Pulled
       /\ last' = last
       /\ \A c \in Calls :
            (Waiting(c) /\ (fut'[c] # "pending" \/ pc'[c] # "await")) =>
               (/\ fut'[c] = "cancelled"
                /\ got'[c] = got[c]
                /\ ret'[c] = TimeoutOutcome(c))]_vars

\* The loop had dispatched envelopes when __aexit__ cancelled it; of the
\* waiters outstanding then, one has timed out since and one is still
\* waiting.
C20_Witness ==
  \E c, d \in Calls :
    /\ zmq_task = "none"
    /\ arrived > 0
    /\ Waiting(c)
    /\ Registered(c)
    /\ pc[d] = "done"
    /\ fut[d] = "cancelled"
    /\ ret[d] = TimeoutOutcome(d)

\* C21: the listener registry holds only entries of waiters that are still
\* pending: once a waiter has timed out or been resolved, no entry of it is
\* left in the registry.
C21_RegistryOnlyPending ==
  \A c \in Calls : Registered(c) => fut[c] = "pending"

\* C22: before the gateway signals ready the ingest task has not entered the
\* adapter, and nothing has been received, pulled or dispatched; every turn
\* of the loop is taken after the ready signal, with the adapter entered.
C22_NothingBeforeReady ==
  /\ [](~ready => (/\ adapter = 0
                   /\ zmq_task # "running"
                   /\ wire = <<>>
                   /\ dispatched = <<>>
                   /\ arrived = 0))
  /\ [][Pulled => (ready /\ adapter > 0)]_vars

\* The task, created by __aenter__, has entered the adapter after the ready
\* signal and dispatched every envelope received.
C22_Witness ==
  /\ ready
  /\ zmq_task = "running"
  /\ adapter = 1
  /\ others = <<>>
  /\ Len(dispatched) = MaxEnvelopes

\* The ingest tasks inside their "async with self._zmq" block.
InsideAdapter ==
  (IF zmq_task = "running" THEN 1 ELSE 0)
  + Cardinality({i \in 1..Len(others) : others[i].pos = "running"})

\* C23: the adapter is entered exactly by the unfinished ingest tasks that
\* are inside their loop: when a task ends, by cancellation or by an
\* exception, it has left the adapter, and with no unfinished task inside
\* the loop the adapter is not open.
C23_AdapterScopedToTask ==
  /\ adapter = InsideAdapter
  /\ (zmq_task \in {"none", "failed", "wait_ready"} /\ others = <<>>) => adapter = 0

\* The loop ran, __aexit__ cancelled its task, the task has finished and the
\* adapter is left.
C23_Witness ==
  /\ zmq_task = "none"
  /\ others = <<>>
  /\ adapter = 0
  /\ Len(dispatched) = MaxEnvelopes

\* C25: the dispatch of a status.response envelope that carries the uuid of
\* a status query and the component name basalisk, while the query's request
\* is out and the query has neither timed out nor been answered, resolves
\* the query with this envelope; and a query resumed with such an envelope
\* lists the patterns if the data holds some, reports no current patterns
\* otherwise, and never reports that the service did not respond.
C25_StatusResponseResolvesQuery ==
  /\ [][Pulled => \A c \in Calls : LET e == last' IN
         (/\ kind[c] = "status"
          /\ pc[c] = "await"
          /\ fut[c] \notin {"cancelled", "result"}
          /\ CarriesIdOf(e, c)
          /\ e.comp = BASALISK
          /\ e.len = 4)
         => (/\ fut'[c] = "result"
             /\ got'[c] = e)]_vars
  /\ [](\A c \in Calls :
         (/\ kind[c] = "status"
          /\ pc[c] = After("await")
          /\ fut[c] = "result"
          /\ got[c].len = 4)
         => ret[c] = IF got[c].data = "some" THEN "patterns" ELSE "no_patterns")

(***************************************************************************)
(* PrivHandler: the admin flag of a member.                                *)
(***************************************************************************)

\* What the store operations leave alone: the correlation layer, the ingest
\* task, the messages.
service_vars == <<no_basalisk, kind, pc, this_uuid, fut, got, ret, listeners,
                  sent, last, arrived, zmq_task, ready, msg, deleted>>

\* The value of a column an INSERT does not name: the boolean columns of
\* member_settings default to false, feature_flags to 0.
IsModDefault == FALSE
FeatureFlagsDefault == 0

\* INSERT INTO guild_settings (guild_id) VALUES (?) ON CONFLICT DO NOTHING
EnsureGuild(flags, g) ==
  [flags EXCEPT ![g] = IF @ = NoRow THEN Row(FeatureFlagsDefault) ELSE @]

\* INSERT INTO member_settings (guild_id, user_id, is_admin) VALUES (?,?,val)
\* ON CONFLICT (guild_id, user_id) DO UPDATE SET is_admin=excluded.is_mod:
\* the row proposed for insertion has val in is_admin and the default in
\* is_mod, and it is the latter that the update takes.
UpsertAdmin(row, val) ==
  IF row.present
  THEN [row EXCEPT !.is_admin = IsModDefault]
  ELSE [present |-> TRUE, is_mod |-> IsModDefault, is_admin |-> val]

\* PrivHandler.member_is_admin
member_is_admin(g, u) ==
  IF member_settings[<<g, u>>].present
  THEN member_settings[<<g, u>>].is_admin
  ELSE FALSE

\* PrivHandler._modify_admin_status, called as name
modify_admin_status(name, val, g, U) ==
  /\ feature_flags' = EnsureGuild(feature_flags, g)
  /\ member_settings' =
       [k \in Guilds \X Users |->
          IF k[1] = g /\ k[2] \in U
          THEN UpsertAdmin(member_settings[k], val)
          ELSE member_settings[k]]
  /\ op' = [NoOp EXCEPT !.name = name, !.guild = g, !.users = U]
  /\ UNCHANGED <<service_vars, lifecycle_vars>>
  /\ UNCHANGED <<prompt, guild_prefixes, cache>>

give_admin(g, U) == modify_admin_status("give_admin", TRUE, g, U)

remove_admin(g, U) == modify_admin_status("remove_admin", FALSE, g, U)

\* A caller asking member_is_admin and keeping the answer.
AskMemberIsAdmin(g, u) ==
  /\ op' = [NoOp EXCEPT !.name = "member_is_admin", !.guild = g,
                        !.users = {u},
                        !.result = IF member_is_admin(g, u) THEN "True" ELSE "False"]
  /\ UNCHANGED <<service_vars, lifecycle_vars>>
  /\ UNCHANGED <<feature_flags, prompt, member_settings, guild_prefixes, cache>>

\* The tables as earlier runs left them: any member rows, each in a guild
\* that has its settings row.
InitPriv ==
  /\ no_basalisk \in BOOLEAN
  /\ Constructed
  /\ prompt = NoPrompt
  /\ guild_prefixes = [g \in Guilds |-> {}]
  /\ cache = [g \in Guilds |-> NotCached]
  /\ op = NoOp
  /\ member_settings \in [Guilds \X Users -> Members]
  /\ feature_flags \in [Guilds -> {NoRow, Row(FeatureFlagsDefault)}]
  /\ \A k \in Guilds \X Users :
       member_settings[k].present => feature_flags[k[1]] # NoRow

NextPriv ==
  \/ \E g \in Guilds : \E U \in SUBSET Users \ {{}} : give_admin(g, U)
  \/ \E g \in Guilds : \E U \in SUBSET Users \ {{}} : remove_admin(g, U)
  \/ \E g \in Guilds : \E u \in Users : AskMemberIsAdmin(g, u)

SpecPriv == InitPriv /\ [][NextPriv]_vars

\* C26: right after give_admin(g, users) member_is_admin(g, u) is true for
\* each of the users, and right after remove_admin(g, users) it is false,
\* whatever rows the store held before.
C26_AdminFlagFollowsLastCall ==
  /\ op.name = "give_admin" => \A u \in op.users : member_is_admin(op.guild, u)
  /\ op.name = "remove_admin" => \A u \in op.users : ~member_is_admin(op.guild, u)

(***************************************************************************)
(* PrefixManager: the prefixes of a guild and their cache.                 *)
(***************************************************************************)

\* The prefixes from the greatest to the least, as ORDER BY prefix DESC
\* lists them ("?" sorts after "!").
PrefixesDesc == <<"?", "!">>

\* SELECT prefix FROM guild_prefixes WHERE guild_id=? ORDER BY prefix DESC
Stored(g) == SelectSeq(PrefixesDesc, LAMBDA p : p \in guild_prefixes[g])

\* self._cache.get(guild_id, ())
CacheGet(g) == IF cache[g].cached THEN cache[g].prefixes ELSE <<>>

\* What get_guild_prefixes(g) returns in the current state.
get_guild_prefixes(g) == IF CacheGet(g) # <<>> THEN CacheGet(g) ELSE Stored(g)

\* self._cache[guild_id] = res on an LRU of 128 entries: a new key may push
\* out entries of other guilds, the least recently used ones, which the
\* model does not single out.
CacheSet(g, res) ==
  \E E \in SUBSET {h \in Guilds \ {g} : cache[h].cached /\ ~cache[g].cached} :
    cache' = [h \in Guilds |->
                IF h = g THEN Cached(res)
                ELSE IF h \in E THEN NotCached
                ELSE cache[h]]

\* PrefixManager.get_guild_prefixes called, the caller keeping the tuple.
GetGuildPrefixes(g) ==
  /\ IF CacheGet(g) # <<>>
     THEN UNCHANGED cache
     ELSE CacheSet(g, Stored(g))
  /\ op' = [NoOp EXCEPT !.name = "get_guild_prefixes", !.guild = g,
                        !.list = get_guild_prefixes(g)]
  /\ UNCHANGED <<service_vars, lifecycle_vars>>
  /\ UNCHANGED <<feature_flags, prompt, member_settings, guild_prefixes>>

\* add_guild_prefixes without the del self._cache[guild_id] that ends it.
add_guild_prefixes_keeping_cache(g, P) ==
  /\ feature_flags' = EnsureGuild(feature_flags, g)
  /\ guild_prefixes' = [guild_prefixes EXCEPT ![g] = @ \cup P]
  /\ op' = [NoOp EXCEPT !.name = "add_guild_prefixes", !.guild = g,
                        !.prefixes = P]
  /\ UNCHANGED <<service_vars, lifecycle_vars>>
  /\ UNCHANGED <<cache, prompt, member_settings>>

\* PrefixManager.add_guild_prefixes
add_guild_prefixes(g, P) ==
  /\ feature_flags' = EnsureGuild(feature_flags, g)
  /\ guild_prefixes' = [guild_prefixes EXCEPT ![g] = @ \cup P]
  /\ cache' = [cache EXCEPT ![g] = NotCached]
  /\ op' = [NoOp EXCEPT !.name = "add_guild_prefixes", !.guild = g,
                        !.prefixes = P]
  /\ UNCHANGED <<service_vars, lifecycle_vars>>
  /\ UNCHANGED <<prompt, member_settings>>

\* PrefixManager.remove_guild_prefixes
remove_guild_prefixes(g, P) ==
  /\ guild_prefixes' = [guild_prefixes EXCEPT ![g] = @ \ P]
  /\ cache' = [cache EXCEPT ![g] = NotCached]
  /\ op' = [NoOp EXCEPT !.name = "remove_guild_prefixes", !.guild = g,
                        !.prefixes = P]
  /\ UNCHANGED <<service_vars, lifecycle_vars>>
  /\ UNCHANGED <<feature_flags, prompt, member_settings>>

\* A fresh process on the database earlier runs left: any stored prefixes,
\* each in a guild that has its settings row, and nothing cached.
InitPrefix ==
  /\ no_basalisk \in BOOLEAN
  /\ Constructed
  /\ prompt = NoPrompt
  /\ member_settings = [k \in Guilds \X Users |-> NoMember]
  /\ cache = [g \in Guilds |-> NotCached]
  /\ op = NoOp
  /\ guild_prefixes \in [Guilds -> SUBSET Prefixes]
  /\ feature_flags \in [Guilds -> {NoRow, Row(FeatureFlagsDefault)}]
  /\ \A g \in Guilds : guild_prefixes[g] # {} => feature_flags[g] # NoRow

NextPrefix ==
  \/ \E g \in Guilds : GetGuildPrefixes(g)
  \/ \E g \in Guilds : \E P \in SUBSET Prefixes : add_guild_prefixes(g, P)
  \/ \E g \in Guilds : \E P \in SUBSET Prefixes : remove_guild_prefixes(g, P)

SpecPrefix == InitPrefix /\ [][NextPrefix]_vars

\* C27: in every state reached by add, remove and get calls, the tuple
\* get_guild_prefixes(g) returns is the stored prefixes of g (greatest
\* first), the tuple a get call has just returned included; and a call for
\* one guild changes neither the stored prefixes nor the returned tuple of
\* another guild.
C27_CacheAgreesWithStore ==
  /\ [](\A g \in Guilds : get_guild_prefixes(g) = Stored(g))
  /\ [](op.name = "get_guild_prefixes" => op.list = Stored(op.guild))
  /\ [][\A h \in Guilds \ {op'.guild} :
          /\ guild_prefixes'[h] = guild_prefixes[h]
          /\ get_guild_prefixes(h)' = get_guild_prefixes(h)]_vars

\* A get call has returned both prefixes stored for g1, which are now
\* cached, while the entry of g2 caches the one prefix stored for g2.
C27_Witness ==
  /\ op.name = "get_guild_prefixes"
  /\ op.guild = "g1"
  /\ op.list = <<"?", "!">>
  /\ cache["g1"] = Cached(<<"?", "!">>)
  /\ cache["g2"] = Cached(<<"!">>)
  /\ guild_prefixes["g2"] = {"!"}

(***************************************************************************)
(* Filter: the per-guild toggle, bit 0 of guild_settings.feature_flags.    *)
(***************************************************************************)

\* feature_flags | 1 and feature_flags & ~1
SetBit0(f) == f + 1 - (f % 2)
ClearBit0(f) == f - (f % 2)

\* The flag bits other than bit 0.
OtherBits(f) == f \div 2

\* enable_in_guild as a plain INSERT that leaves an existing row alone.
enable_insert_only(g) ==
  /\ feature_flags' = [feature_flags EXCEPT ![g] = IF @.present THEN @ ELSE Row(1)]
  /\ op' = [NoOp EXCEPT !.name = "enable_in_guild", !.guild = g]
  /\ UNCHANGED <<service_vars, lifecycle_vars>>
  /\ UNCHANGED <<prompt, member_settings, guild_prefixes, cache>>

\* Filter.enable_in_guild
enable_in_guild(g) ==
  /\ feature_flags' = [feature_flags EXCEPT ![g] =
                         IF @.present THEN Row(SetBit0(@.feature_flags)) ELSE Row(1)]
  /\ op' = [NoOp EXCEPT !.name = "enable_in_guild", !.guild = g]
  /\ UNCHANGED <<service_vars, lifecycle_vars>>
  /\ UNCHANGED <<prompt, member_settings, guild_prefixes, cache>>

\* disable_in_guild setting feature_flags to 0 instead of clearing bit 0.
disable_clearing_all(g) ==
  /\ feature_flags' = [feature_flags EXCEPT ![g] = IF @.present THEN Row(0) ELSE @]
  /\ op' = [NoOp EXCEPT !.name = "disable_in_guild", !.guild = g]
  /\ UNCHANGED <<service_vars, lifecycle_vars>>
  /\ UNCHANGED <<prompt, member_settings, guild_prefixes, cache>>

\* Filter.disable_in_guild
disable_in_guild(g) ==
  /\ feature_flags' = [feature_flags EXCEPT ![g] =
                         IF @.present THEN Row(ClearBit0(@.feature_flags)) ELSE @]
  /\ op' = [NoOp EXCEPT !.name = "disable_in_guild", !.guild = g]
  /\ UNCHANGED <<service_vars, lifecycle_vars>>
  /\ UNCHANGED <<prompt, member_settings, guild_prefixes, cache>>

\* A caller asking check_enabled_in_guild and keeping the answer.
AskEnabled(g) ==
  /\ op' = [NoOp EXCEPT !.name = "check_enabled_in_guild", !.guild = g,
                        !.result = IF check_enabled_in_guild(g) THEN "True" ELSE "False"]
  /\ UNCHANGED <<service_vars, lifecycle_vars>>
  /\ UNCHANGED <<feature_flags, prompt, member_settings, guild_prefixes, cache>>

\* The guild_settings table as earlier runs left it: any row or none for
\* each guild.
InitFlags ==
  /\ no_basalisk = FALSE
  /\ Constructed
  /\ NoCommands
  /\ feature_flags \in [Guilds -> Rows]

NextFlags ==
  \/ \E g \in Guilds : enable_in_guild(g)
  \/ \E g \in Guilds : disable_in_guild(g)
  \/ \E g \in Guilds : AskEnabled(g)

SpecFlags == InitFlags /\ [][NextFlags]_vars

\* The step is a call of enable_in_guild or disable_in_guild.
Toggled == op'.name \in {"enable_in_guild", "disable_in_guild"}

\* C28: right after enable_in_guild(g) check_enabled_in_guild(g) is true and
\* right after disable_in_guild(g) it is false; a second enable (disable) of
\* the same guild right after the first changes nothing; and
\* disable_in_guild on a guild without a row leaves it without a row (and,
\* by the second conjunct, reported as disabled).
C28_ToggleSetsAnswer ==
  /\ [](op.name = "enable_in_guild" => check_enabled_in_guild(op.guild))
  /\ [](op.name = "disable_in_guild" => ~check_enabled_in_guild(op.guild))
  /\ [][(Toggled /\ op' = op) => feature_flags' = feature_flags]_vars
  /\ [][(op'.name = "disable_in_guild" /\ ~feature_flags[op'.guild].present)
          => ~feature_flags'[op'.guild].present]_vars

\* enable_in_guild has just turned on the toggle of a guild whose row held
\* another flag, the other guild having no row.
C28_Witness ==
  /\ op.name = "enable_in_guild"
  /\ op.guild = "g1"
  /\ feature_flags["g1"] = Row(3)
  /\ feature_flags["g2"] = NoRow

\* C29: a call of enable_in_guild(g) or disable_in_guild(g) leaves the row
\* of every other guild as it was, and the flag bits of g other than bit 0
\* as they were (a row that enable_in_guild creates holds bit 0 alone).
C29_ToggleChangesBit0Only ==
  [][Toggled => LET g == op'.guild IN
       /\ \A h \in Guilds \ {g} : feature_flags'[h] = feature_flags[h]
       /\ OtherBits(feature_flags'[g].feature_flags)
            = OtherBits(feature_flags[g].feature_flags)
       /\ feature_flags[g].present => feature_flags'[g].present]_vars

\* disable_in_guild has just turned off the toggle of a guild whose row
\* holds another flag, the other guild's row holding both flags.
C29_Witness ==
  /\ op.name = "disable_in_guild"
  /\ op.guild = "g2"
  /\ feature_flags["g2"] = Row(2)
  /\ feature_flags["g1"] = Row(3)

(***************************************************************************)
(* SalamanderContext.prompt: one run, the gateway delivering messages.     *)
(***************************************************************************)

UNTIMELY_RESPONSE_ERROR_STR == "I'm not waiting forever for a response (exiting)."
NON_TEXT_RESPONSE_ERROR_STR ==
  "There doesn't appear to be any text in your response, please try this command again."
INVALID_OPTION_ERROR_FMT ==
  "That wasn't a valid option, please try this command again.\n(Valid options are: {})"

\* The options of the prompt, and response.content being None.
Options == {"yes", "no"}
NoContent == "None"

\* The messages the gateway delivers: the invoking author in the invoking
\* channel with an option, an option in capitals, another text and no
\* text; another author; another channel.
Replies ==
  {Reply("author", "channel", t) : t \in {"yes", "NO", "maybe", NoContent}}
    \cup {Reply("other", "channel", "yes"), Reply("author", "elsewhere", "yes")}

\* check(m) of prompt
PromptCheck(m) == m.author = "author" /\ m.channel = "channel"

\* str.casefold on the contents above
Casefold(t) == IF t = "NO" THEN "no" ELSE t

\* What prompt does with the response it awaited: the two
\* IncompleteInputError messages, or the content returned.
Validate(m, case_sensitive) ==
  IF m.content = NoContent THEN NON_TEXT_RESPONSE_ERROR_STR
  ELSE LET content == IF case_sensitive THEN m.content ELSE Casefold(m.content)
       IN IF content \notin Options THEN INVALID_OPTION_ERROR_FMT ELSE content

PromptFrame ==
  /\ UNCHANGED <<service_vars, lifecycle_vars>>
  /\ UNCHANGED <<feature_flags, member_settings, guild_prefixes, cache, op>>

\* prompt(...) called with its keyword arguments.
PromptCall(cs, del) ==
  /\ prompt.pc = "idle"
  /\ prompt' = [prompt EXCEPT !.pc = "wait_for", !.case_sensitive = cs,
                              !.delete_on_return = del]
  /\ PromptFrame

\* wait_for that also starts the timeout, as asyncio.wait_for awaited at
\* once would.
PromptWaitForStartingTimer ==
  /\ prompt.pc = "wait_for"
  /\ prompt' = [prompt EXCEPT !.pc = "send", !.fut = "pending",
                              !.listening = TRUE, !.timer = TRUE]
  /\ PromptFrame

\* fut = self.bot.wait_for("message", check=check, timeout=timeout): the
\* future is created and its listener registered; the awaitable returned
\* is not awaited yet, so no timer runs.
PromptWaitFor ==
  /\ prompt.pc = "wait_for"
  /\ prompt' = [prompt EXCEPT !.pc = "send", !.fut = "pending",
                              !.listening = TRUE]
  /\ PromptFrame

\* sent = await self.send(prompt): the request is issued and prompt is
\* suspended until it completes.
PromptSendBegins ==
  /\ prompt.pc = "send"
  /\ prompt' = [prompt EXCEPT !.pc = "sending"]
  /\ PromptFrame

\* The send completes and prompt reaches "await fut": the timeout starts
\* now unless the future is already done.
PromptSendDone ==
  /\ prompt.pc = "sending"
  /\ prompt' = [prompt EXCEPT !.pc = "await", !.timer = (prompt.fut = "pending")]
  /\ PromptFrame

\* The send raises: prompt ends with that exception.
PromptSendFails ==
  /\ prompt.pc = "sending"
  /\ prompt' = [prompt EXCEPT !.pc = "done", !.ret = "send_failed"]
  /\ PromptFrame

\* The gateway dispatches message m: a cancelled listener is dropped, a
\* pending one whose check accepts m gets m as its result and is removed.
Hear(m) ==
  /\ prompt' = [prompt EXCEPT
       !.heard = m,
       !.tick = ~@,
       !.listening = IF prompt.listening /\ prompt.fut = "pending" /\ ~PromptCheck(m)
                     THEN TRUE ELSE FALSE,
       !.fut = IF prompt.listening /\ @ = "pending" /\ PromptCheck(m)
               THEN "result" ELSE @,
       !.response = IF prompt.listening /\ prompt.fut = "pending" /\ PromptCheck(m)
                    THEN m ELSE @]
  /\ PromptFrame

\* response = await fut, the future having its result: validation, return,
\* and the deletions of the finally block.
PromptResume ==
  /\ prompt.pc = "await"
  /\ prompt.fut = "result"
  /\ LET r == Validate(prompt.response, prompt.case_sensitive) IN
       prompt' = [prompt EXCEPT !.pc = "done", !.timer = FALSE, !.ret = r,
                    !.deleted = (r \in Options /\ prompt.delete_on_return)]
  /\ PromptFrame

\* The timeout expires on the pending future: asyncio.TimeoutError, turned
\* into IncompleteInputError(custom_message=UNTIMELY_RESPONSE_ERROR_STR).
PromptTimeout ==
  /\ prompt.pc = "await"
  /\ prompt.timer
  /\ prompt.fut = "pending"
  /\ prompt' = [prompt EXCEPT !.pc = "done", !.timer = FALSE,
                              !.fut = "cancelled",
                              !.ret = UNTIMELY_RESPONSE_ERROR_STR]
  /\ PromptFrame

NextPrompt ==
  \/ \E cs, del \in BOOLEAN : PromptCall(cs, del)
  \/ PromptWaitFor
  \/ PromptSendBegins
  \/ PromptSendDone
  \/ PromptSendFails
  \/ \E m \in Replies : Hear(m)
  \/ PromptResume
  \/ PromptTimeout

\* The event loop runs a timer that is due and resumes a coroutine whose
\* future is done.
SpecPrompt ==
  /\ Init
  /\ [][NextPrompt]_vars
  /\ WF_vars(PromptTimeout)
  /\ WF_vars(PromptResume)

\* The step is the dispatch of a message; prompt'.heard is the message.
Heard == prompt'.tick # prompt.tick

\* C24: once the send has begun the listener's future exists; the timeout
\* runs only after the send has completed; a message of the invoking author
\* in the invoking channel dispatched while the future is pending, the send
\* still being in progress included, becomes the future's result and stays
\* the response, which is what a prompt whose send completed validates; a
\* prompt that ended after its send without such a message ended by the
\* timeout with the untimely-response message, and only so; and a prompt
\* awaiting its future does end.
C24_ListenSendThenTimer ==
  /\ [](prompt.pc \in {"sending", "await"} => prompt.fut # "none")
  /\ [](prompt.timer => prompt.pc = "await")
  /\ [][(/\ Heard
         /\ prompt.pc \in {"sending", "await"}
         /\ prompt.fut = "pending"
         /\ PromptCheck(prompt'.heard))
        => (/\ prompt'.fut = "result"
            /\ prompt'.response = prompt'.heard)]_vars
  /\ [][prompt.response # NoReply => prompt'.response = prompt.response]_vars
  /\ []((prompt.pc = "done" /\ prompt.ret # "send_failed" /\ prompt.fut = "result")
          => prompt.ret = Validate(prompt.response, prompt.case_sensitive))
  /\ []((prompt.pc = "done" /\ prompt.ret # "send_failed" /\ prompt.fut # "result")
          => prompt.ret = UNTIMELY_RESPONSE_ERROR_STR)
  /\ [](prompt.ret = UNTIMELY_RESPONSE_ERROR_STR
          => (prompt.fut = "cancelled" /\ prompt.response = NoReply))
  /\ (prompt.pc = "await") ~> (prompt.pc = "done")

\* A reply in capitals of the invoking author has become the future's
\* result while the send is still in progress, no timer running.
C24_Witness ==
  /\ prompt.pc = "sending"
  /\ prompt.fut = "result"
  /\ prompt.response = Reply("author", "channel", "NO")
  /\ prompt.heard = Reply("author", "elsewhere", "yes")
  /\ ~prompt.timer
====
